---- MODULE Spec2Model ----
(***************************************************************************)
(* gesher: the proxyvalidatingtype reconciler (observe -> analyze -> act)  *)
(* and the admission proxy's fan-out to secondary webhooks.                *)
(*                                                                         *)
(* Spec          one reconcile worker (controller.Options{Reconciler: r}   *)
(*               leaves the controller's worker count at its default) plus *)
(*               the cluster's own changes to the custom resources.        *)
(* SpecConc      two reconcile workers running cycles for different        *)
(*               resources at the same time.                               *)
(* SpecFinalizer manageFinalizer applied to every bounded input.           *)
(* SpecDispatch  one checkWebhooks call with its doWebhook goroutines.     *)
(***************************************************************************)
EXTENDS Integers, Sequences, FiniteSets, TLC

VARIABLES
    cr,              \* stored custom resources, by UID
    clusterWebhook,  \* the stored cluster ValidatingWebhookConfiguration
    proxyTypeData,   \* the published aggregate (package variable)
    pc,              \* per worker: position in Reconcile
    request,         \* per worker: UID of the reconcile.Request
    observed,        \* per worker: *observedState
    state,           \* per worker: *analyzedState
    err,             \* per worker: error Reconcile returns
    log,             \* per worker: cluster writes / publication of this cycle
    start,           \* per worker: cluster state when the cycle started
    cycles,          \* number of cycles started so far
    applied,         \* webhook contents the cluster object has ever held
    stable,          \* per worker: whether its cycle repeats a completed one
    mfIn,            \* manageFinalizer: input (finalizers, delete)
    mfOut,           \* manageFinalizer: result
    webhooks,        \* checkWebhooks: the endpoints, in evaluation order
    mpc,             \* checkWebhooks: position of the calling goroutine
    gpc,             \* per endpoint: position of its doWebhook goroutine
    outcome,         \* per endpoint: the error its doWebhook sent
    errCh,           \* buffered channel of len(webhooks) errors
    chClosed,        \* whether errCh is closed
    wg,              \* the WaitGroup's counter
    verdict,         \* the AdmissionResponse checkWebhooks returns
    crashed,         \* the process died of a panic
    response,        \* per endpoint: what client.Do returned for its call
    policy,          \* per endpoint: the FailurePolicy its configuration asks for
    bodyPos,         \* read position of the *bytes.Reader all calls are given
    contentLength,   \* per endpoint: ContentLength of the request built for it
    offset,          \* per endpoint: the position its Read loaded
    received,        \* per endpoint: the request body sent to it
    tfIn,            \* toFailure: input (response, failure policy, endpoint)
    tfOut,           \* toFailure: result
    env,             \* the ADM_SERVICE_* environment of the process
    phase,           \* startup / serving / request handled, of the webhook server
    lookup,          \* what findWebhooks did for the request
    agIn,            \* aggregate: a ProxyTypeData and two resources to add
    agOut            \* aggregate: the contents generated from them

reconcileVars == <<cr, clusterWebhook, proxyTypeData, pc, request, observed,
                   state, err, log, start, cycles, applied, stable>>
finalizerVars == <<mfIn, mfOut>>
dispatchVars == <<webhooks, mpc, gpc, outcome, errCh, chClosed, wg, verdict, crashed,
                  response>>
bodyVars == <<policy, bodyPos, contentLength, offset, received>>
toFailureVars == <<tfIn, tfOut>>
configVars == <<env, phase, lookup>>
aggregateVars == <<agIn, agOut>>
extraVars == <<bodyVars, toFailureVars, configVars, aggregateVars>>
vars == <<reconcileVars, finalizerVars, dispatchVars, extraVars>>

-----------------------------------------------------------------------------
(* Bounds *)

MaxCycles == 3      \* reconcile cycles started in one behaviour
MaxEdits == 1       \* spec changes made to the resources in one behaviour
MaxLen == 3         \* longest finalizer list given to manageFinalizer
MaxHooks == 3       \* most endpoints given to checkWebhooks

UIDs == {1, 2}                      \* the contributing custom resources
Workers == {1, 2}                   \* reconcile workers of SpecConc
SerialWorkers == {1}                \* the single worker of Spec
Operations == {"CREATE", "DELETE"}  \* testOp, testDiffOp

typeFinalizer == "type.finalizer.gesher"
otherFinalizer == "other.finalizer"
thirdFinalizer == "third.finalizer"
FinalizerNames == {typeFinalizer, otherFinalizer, thirdFinalizer}

-----------------------------------------------------------------------------
(* Helpers of act.go *)

containsString(slice, s) == \E i \in 1..Len(slice) : slice[i] = s

\* removeString stopping after the first match
removeStringFirstOnly(slice, s) ==
    IF ~containsString(slice, s) THEN slice
    ELSE LET i == CHOOSE k \in 1..Len(slice) :
                     slice[k] = s /\ \A j \in 1..(k - 1) : slice[j] # s
         IN  SubSeq(slice, 1, i - 1) \o SubSeq(slice, i + 1, Len(slice))

RECURSIVE removeString(_, _)
removeString(slice, s) ==
    IF slice = <<>> THEN <<>>
    ELSE IF Head(slice) = s THEN removeString(Tail(slice), s)
         ELSE <<Head(slice)>> \o removeString(Tail(slice), s)

\* manageFinalizer on (state.customResource.Finalizers, state.delete):
\* the new finalizer list and the returned flag.
manageFinalizer(finalizers, delete) ==
    IF ~delete
    THEN IF ~containsString(finalizers, typeFinalizer)
         THEN [finalizers |-> Append(finalizers, typeFinalizer), ret |-> TRUE]
         ELSE [finalizers |-> finalizers, ret |-> FALSE]
    ELSE IF containsString(finalizers, typeFinalizer)
         THEN [finalizers |-> removeString(finalizers, typeFinalizer), ret |-> TRUE]
         ELSE [finalizers |-> finalizers, ret |-> FALSE]

\* manageGeneration reporting a change every time
manageGenerationAlways(res) ==
    [observedGeneration |-> res.generation, ret |-> TRUE]

\* manageGeneration on state.customResource: the new observed generation
\* and the returned flag.
manageGeneration(res) ==
    IF res.observedGeneration # res.generation
    THEN [observedGeneration |-> res.generation, ret |-> TRUE]
    ELSE [observedGeneration |-> res.observedGeneration, ret |-> FALSE]

-----------------------------------------------------------------------------
(* The aggregate (ProxyTypeData): a set of entries, one per declarant id. *)

EmptyProxyTypeData == {}

\* Add keeping the entry the declarant already has
AddFirstWins(data, res) ==
    IF \E e \in data : e.id = res.uid THEN data
    ELSE data \cup {[id |-> res.uid, op |-> res.op]}

Add(data, res) ==
    {e \in data : e.id # res.uid} \cup {[id |-> res.uid, op |-> res.op]}

Delete(data, res) == {e \in data : e.id # res.uid}

\* The generated webhook list: one rule per entry, in id order.
GenerateGlobalWebhook(data) ==
    [i \in 1..Cardinality(data) |->
        LET e == CHOOSE x \in data : Cardinality({y \in data : y.id < x.id}) = i - 1
        IN  [resource |-> e.id, operation |-> e.op]]

\* analyze comparing nothing: update only for an absent object
analyzeCreateOnly(obs, data) ==
    LET res == obs.customResource
        new == IF res.deleting THEN Delete(data, res) ELSE Add(data, res)
        create == ~obs.clusterWebhook.exists
    IN  [customResource |-> res,
         newProxyTypeData |-> new,
         webhook |-> [exists |-> TRUE, webhooks |-> GenerateGlobalWebhook(new),
                      resourceVersion |-> obs.clusterWebhook.resourceVersion],
         create |-> create,
         update |-> create,
         delete |-> res.deleting]

\* analyze: the new aggregate is the published one with this resource added
\* (or withdrawn, when it carries a deletion marker); the webhook is generated
\* from it.  act.go calls manageWebhookConfig, which holds the create call,
\* only under state.update, so update is set for an absent object too.
analyze(obs, data) ==
    LET res == obs.customResource
        new == IF res.deleting THEN Delete(data, res) ELSE Add(data, res)
        hooks == GenerateGlobalWebhook(new)
        create == ~obs.clusterWebhook.exists
    IN  [customResource |-> res,
         newProxyTypeData |-> new,
         webhook |-> [exists |-> TRUE, webhooks |-> hooks,
                      resourceVersion |-> obs.clusterWebhook.resourceVersion],
         create |-> create,
         update |-> create \/ obs.clusterWebhook.webhooks # hooks,
         delete |-> res.deleting]

-----------------------------------------------------------------------------
(* Control flow of act *)

\* Reconcile going on without an observed state
reconcileAlwaysAnalyzes(found) == "analyze"

\* proxyvalidatingtype_controller.go:93-95  no observed state: return nil
reconcileAfterObserve(found) == IF found THEN "analyze" ELSE "done"

\* Reconcile calling act after a failed analyze
reconcileIgnoresAnalyzeError(ok) == "act"

\* proxyvalidatingtype_controller.go:97-100  an analyze error returns
reconcileAfterAnalyze(ok) == IF ok THEN "act" ELSE "done"

\* act never calling manageWebhookConfig
actNeverCallsWebhook(st) == FALSE

\* act.go:14  manageWebhookConfig is called iff state.update
actCallsWebhook(st) == st.update

\* act going on after a webhook error
actIgnoresWebhookError(ok) == "resource"

\* act.go:16-18  a webhook error returns
actAfterWebhook(ok) == IF ok THEN "resource" ELSE "done"

\* act preferring the status update
actWriteStatusFirst(fullChange, statusChange) ==
    IF statusChange THEN "status" ELSE IF fullChange THEN "full" ELSE "none"

\* act.go:31-45  which write the custom resource gets
actWrite(fullChange, statusChange) ==
    IF fullChange THEN "full" ELSE IF statusChange THEN "status" ELSE "none"

\* act publishing after a failed write
actIgnoresWriteError(ok) == "publish"

\* act.go:34-37, 41-44  a write error returns
actAfterWrite(ok) == IF ok THEN "publish" ELSE "done"

-----------------------------------------------------------------------------
(* Values of idle workers *)

NoWebhook == [exists |-> FALSE, webhooks |-> <<>>, resourceVersion |-> 0]
NoResource == [uid |-> 0, exists |-> FALSE,
               finalizers |-> <<>>, deleting |-> FALSE, generation |-> 0,
               observedGeneration |-> 0, op |-> "CREATE"]
NoObserved == [customResource |-> NoResource, clusterWebhook |-> NoWebhook]
NoState == [customResource |-> NoResource, newProxyTypeData |-> {},
            webhook |-> NoWebhook, create |-> FALSE, update |-> FALSE,
            delete |-> FALSE]
NoStart == [cr |-> NoResource, webhook |-> NoWebhook, data |-> {}]

Event(op, ok) == [op |-> op, ok |-> ok]

\* stable[w] is "settled" from the moment a cycle of worker w has completed
\* until something else changes the cluster or the aggregate, and "repeat"
\* during a cycle w started for the same resource while it was settled.
Disturbed(w) == [v \in Workers |-> IF v = w THEN stable[v] ELSE "no"]
Settled(w) == [v \in Workers |-> IF v = w THEN "settled" ELSE "no"]
Unsettled == [v \in Workers |-> "no"]

-----------------------------------------------------------------------------
(* Initial states *)

InitReconcile ==
    /\ \E fin \in {<<>>, <<otherFinalizer>>} :
         cr = [r \in UIDs |->
                 [uid |-> r, exists |-> TRUE,
                  finalizers |-> fin, deleting |-> FALSE,
                  generation |-> 1, observedGeneration |-> 0, op |-> "CREATE"]]
    /\ clusterWebhook \in {NoWebhook,
                           [exists |-> TRUE, webhooks |-> <<>>, resourceVersion |-> 1]}
    /\ proxyTypeData = EmptyProxyTypeData
    /\ pc = [w \in Workers |-> "idle"]
    /\ request = [w \in Workers |-> 0]
    /\ observed = [w \in Workers |-> NoObserved]
    /\ state = [w \in Workers |-> NoState]
    /\ err = [w \in Workers |-> "nil"]
    /\ log = [w \in Workers |-> <<>>]
    /\ start = [w \in Workers |-> NoStart]
    /\ cycles = 0
    /\ applied = IF clusterWebhook.exists THEN {clusterWebhook.webhooks} ELSE {}
    /\ stable = [w \in Workers |-> "no"]

NoResult == [finalizers |-> <<>>, ret |-> FALSE, called |-> FALSE]

FinalizerIdle == mfIn = [finalizers |-> <<>>, delete |-> FALSE] /\ mfOut = NoResult

NoVerdict == [allowed |-> FALSE, message |-> <<"none", 0>>]

DispatchIdle ==
    /\ webhooks = <<>>
    /\ mpc = "off"
    /\ gpc = <<>>
    /\ outcome = <<>>
    /\ errCh = <<>>
    /\ chClosed = FALSE
    /\ wg = 0
    /\ verdict = NoVerdict
    /\ crashed = FALSE
    /\ response = <<>>

\* The request body, as a sequence of bytes.
Body == <<"b1", "b2">>

BodyIdle ==
    /\ policy = [i \in 1..Len(webhooks) |-> "Fail"]
    /\ bodyPos = 0
    /\ contentLength = [i \in 1..Len(webhooks) |-> 0]
    /\ offset = [i \in 1..Len(webhooks) |-> 0]
    /\ received = [i \in 1..Len(webhooks) |-> <<>>]

NoOutcome == [kind |-> "none", message |-> <<"none", 0>>]

ToFailureIdle ==
    /\ tfIn = [resp |-> "allow", failurePolicy |-> "Fail", endpoint |-> 0]
    /\ tfOut = NoOutcome

ConfigIdle ==
    /\ env = [serviceName |-> "ok", namespace |-> "ok", path |-> "ok",
              caBundle |-> "ok", port |-> "ok"]
    /\ phase = "off"
    /\ lookup = "none"

AggregateIdle ==
    /\ agIn = [data |-> {}, a |-> [uid |-> 0, op |-> "CREATE"],
               b |-> [uid |-> 0, op |-> "CREATE"]]
    /\ agOut = [called |-> FALSE, a |-> <<>>, ab |-> <<>>, ba |-> <<>>, aa |-> <<>>]

ExtraIdle == BodyIdle /\ ToFailureIdle /\ ConfigIdle /\ AggregateIdle

Init == InitReconcile /\ FinalizerIdle /\ DispatchIdle /\ ExtraIdle

-----------------------------------------------------------------------------
(* Reconcile *)

\* Reconcile is called with the next request (the previous call, if any, has
\* returned); observe reads the resource and the cluster webhook object.
Observe(w, r) ==
    /\ pc[w] \in {"idle", "done"}
    /\ cycles < MaxCycles
    /\ \A v \in Workers \ {w} : pc[v] \notin {"idle", "done"} => request[v] # r
    /\ cycles' = cycles + 1
    /\ request' = [request EXCEPT ![w] = r]
    /\ log' = [log EXCEPT ![w] = <<>>]
    /\ start' = [start EXCEPT ![w] = [cr |-> cr[r], webhook |-> clusterWebhook,
                                      data |-> proxyTypeData]]
    /\ state' = [state EXCEPT ![w] = NoState]
    /\ \E ok \in BOOLEAN :
         IF ~ok
         THEN /\ pc' = [pc EXCEPT ![w] = "done"]
              /\ err' = [err EXCEPT ![w] = "observe"]
              /\ observed' = [observed EXCEPT ![w] = NoObserved]
              /\ stable' = [stable EXCEPT ![w] = "no"]
         ELSE IF ~cr[r].exists
         THEN /\ pc' = [pc EXCEPT ![w] = reconcileAfterObserve(FALSE)]
              /\ err' = [err EXCEPT ![w] = "nil"]
              /\ observed' = [observed EXCEPT ![w] = NoObserved]
              /\ stable' = [stable EXCEPT ![w] = "no"]
         ELSE /\ pc' = [pc EXCEPT ![w] = reconcileAfterObserve(TRUE)]
              /\ err' = [err EXCEPT ![w] = "nil"]
              /\ observed' = [observed EXCEPT ![w] =
                                [customResource |-> cr[r],
                                 clusterWebhook |-> clusterWebhook]]
              /\ stable' = [stable EXCEPT ![w] =
                              IF @ = "settled" /\ request[w] = r
                              THEN "repeat" ELSE "no"]
    /\ UNCHANGED <<cr, clusterWebhook, proxyTypeData, applied, finalizerVars, dispatchVars, extraVars>>

Analyze(w) ==
    /\ pc[w] = "analyze"
    /\ \E ok \in BOOLEAN :
         IF ok
         THEN /\ state' = [state EXCEPT ![w] = analyze(observed[w], proxyTypeData)]
              /\ pc' = [pc EXCEPT ![w] = reconcileAfterAnalyze(TRUE)]
              /\ err' = err
         ELSE /\ state' = state
              /\ pc' = [pc EXCEPT ![w] = reconcileAfterAnalyze(FALSE)]
              /\ err' = [err EXCEPT ![w] = "analyze"]
    /\ UNCHANGED <<cr, clusterWebhook, proxyTypeData, request, observed, log,
                   start, cycles, applied, stable, finalizerVars, dispatchVars, extraVars>>

\* Whether the cluster accepts the write manageWebhookConfig issues.
WebhookWriteAccepted(st) ==
    IF st.create
    THEN ~clusterWebhook.exists
    ELSE clusterWebhook.exists
         /\ clusterWebhook.resourceVersion = st.webhook.resourceVersion

\* act, first part: manageWebhookConfig.
ActWebhook(w) ==
    /\ pc[w] = "act"
    /\ IF ~actCallsWebhook(state[w])
       THEN /\ pc' = [pc EXCEPT ![w] = "resource"]
            /\ UNCHANGED <<clusterWebhook, applied, log, err, stable>>
       ELSE \E ok \in {TRUE, FALSE} :
            /\ ok => WebhookWriteAccepted(state[w])
            /\ stable' = IF ok THEN Disturbed(w) ELSE stable
            /\ log' = [log EXCEPT ![w] = Append(@,
                         Event(IF state[w].create THEN "whCreate" ELSE "whUpdate", ok))]
            /\ pc' = [pc EXCEPT ![w] = actAfterWebhook(ok)]
            /\ err' = [err EXCEPT ![w] = IF ok THEN "nil" ELSE "webhook"]
            /\ IF ok
               THEN /\ clusterWebhook' =
                         [exists |-> TRUE, webhooks |-> state[w].webhook.webhooks,
                          resourceVersion |-> clusterWebhook.resourceVersion + 1]
                    /\ applied' = applied \cup {state[w].webhook.webhooks}
               ELSE UNCHANGED <<clusterWebhook, applied>>
    /\ UNCHANGED <<cr, proxyTypeData, request, observed, state, start, cycles,
                   finalizerVars, dispatchVars, extraVars>>

\* Whether the cluster accepts a write of the observed custom resource: the
\* stored object is still the one observed (every change to a stored object
\* changes one of its fields, so this is the resourceVersion comparison).
ResourceWriteAccepted(res) ==
    /\ cr[res.uid].exists
    /\ cr[res.uid] = res

\* act, second part: manageFinalizer, manageGeneration and the write.
ActResource(w) ==
    /\ pc[w] = "resource"
    /\ LET res == state[w].customResource
           r == res.uid
           f == manageFinalizer(res.finalizers, state[w].delete)
           g == manageGeneration(res)
           kind == actWrite(f.ret, g.ret)
           local == [res EXCEPT !.finalizers = f.finalizers,
                                !.observedGeneration = g.observedGeneration]
       IN
       /\ state' = [state EXCEPT ![w].customResource = local]
       /\ IF kind = "none"
          THEN /\ pc' = [pc EXCEPT ![w] = "publish"]
               /\ UNCHANGED <<cr, log, err, stable>>
          ELSE \E ok \in {TRUE, FALSE} :
               /\ ok => ResourceWriteAccepted(res)
               /\ stable' = IF ok THEN Disturbed(w) ELSE stable
               /\ log' = [log EXCEPT ![w] = Append(@,
                            Event(IF kind = "full" THEN "crUpdate" ELSE "crStatus", ok))]
               /\ pc' = [pc EXCEPT ![w] = actAfterWrite(ok)]
               /\ err' = [err EXCEPT ![w] = IF ok THEN "nil" ELSE "resource"]
               /\ IF ~ok THEN cr' = cr
                  ELSE IF kind = "full"
                  THEN \* Update: the object without its status subresource
                       cr' = [cr EXCEPT ![r].finalizers = local.finalizers,
                                        ![r].exists =
                                           ~(cr[r].deleting /\ local.finalizers = <<>>)]
                  ELSE \* Status().Update: the status alone
                       cr' = [cr EXCEPT ![r].observedGeneration =
                                            local.observedGeneration]
    /\ UNCHANGED <<clusterWebhook, proxyTypeData, request, observed, start,
                   cycles, applied, finalizerVars, dispatchVars, extraVars>>

\* act assigning the new aggregate to a variable that shadows proxyTypeData
ActPublishShadowed(w) ==
    /\ pc[w] = "publish"
    /\ log' = [log EXCEPT ![w] = Append(@, Event("publish", TRUE))]
    /\ pc' = [pc EXCEPT ![w] = "done"]
    /\ err' = [err EXCEPT ![w] = "nil"]
    /\ stable' = Settled(w)
    /\ UNCHANGED <<cr, clusterWebhook, proxyTypeData, request, observed, state,
                   start, cycles, applied, finalizerVars, dispatchVars, extraVars>>

\* act, last part: proxyTypeData = state.newProxyTypeData; return nil.
ActPublish(w) ==
    /\ pc[w] = "publish"
    /\ proxyTypeData' = state[w].newProxyTypeData
    /\ log' = [log EXCEPT ![w] = Append(@, Event("publish", TRUE))]
    /\ pc' = [pc EXCEPT ![w] = "done"]
    /\ err' = [err EXCEPT ![w] = "nil"]
    /\ stable' = Settled(w)
    /\ UNCHANGED <<cr, clusterWebhook, request, observed, state, start, cycles,
                   applied, finalizerVars, dispatchVars, extraVars>>

-----------------------------------------------------------------------------
(* The cluster's own changes to a custom resource *)

\* A delete request: the deletion marker is set, or the object goes at once
\* when it holds no finalizer.
MarkDeleted(r) ==
    /\ cr[r].exists
    /\ ~cr[r].deleting
    /\ cr' = [cr EXCEPT ![r].deleting = TRUE,
                        ![r].exists = cr[r].finalizers # <<>>]
    /\ stable' = Unsettled
    /\ UNCHANGED <<clusterWebhook, proxyTypeData, pc, request, observed, state,
                   err, log, start, cycles, applied, finalizerVars, dispatchVars, extraVars>>

RECURSIVE SumGenerations(_)
SumGenerations(S) ==
    IF S = {} THEN 0
    ELSE LET r == CHOOSE x \in S : TRUE
         IN  cr[r].generation + SumGenerations(S \ {r})

\* Spec changes made so far: every resource starts at generation 1.
Edits == SumGenerations(UIDs) - Cardinality(UIDs)

\* A change of the resource's spec: another operation, the next generation.
ChangeSpec(r) ==
    /\ cr[r].exists
    /\ ~cr[r].deleting
    /\ Edits < MaxEdits
    /\ \E o \in Operations \ {cr[r].op} :
         cr' = [cr EXCEPT ![r].op = o,
                          ![r].generation = @ + 1]
    /\ stable' = Unsettled
    /\ UNCHANGED <<clusterWebhook, proxyTypeData, pc, request, observed, state,
                   err, log, start, cycles, applied, finalizerVars, dispatchVars, extraVars>>

Cluster == \E r \in UIDs : MarkDeleted(r) \/ ChangeSpec(r)

Reconcile(w) ==
    \/ \E r \in UIDs : Observe(w, r)
    \/ Analyze(w)
    \/ ActWebhook(w)
    \/ ActResource(w)
    \/ ActPublish(w)

Next == (\E w \in SerialWorkers : Reconcile(w)) \/ Cluster

Spec == Init /\ [][Next]_vars

NextConc == (\E w \in Workers : Reconcile(w)) \/ (\E r \in UIDs : MarkDeleted(r))

SpecConc == Init /\ [][NextConc]_vars

-----------------------------------------------------------------------------
(* manageFinalizer on every bounded input *)

RECURSIVE SeqsUpTo(_, _)
SeqsUpTo(S, n) ==
    IF n = 0 THEN {<<>>}
    ELSE LET shorter == SeqsUpTo(S, n - 1)
         IN  shorter \cup {Append(s, x) : s \in shorter, x \in S}

InitFinalizer ==
    /\ mfIn \in [finalizers : SeqsUpTo(FinalizerNames, MaxLen), delete : BOOLEAN]
    /\ mfOut = NoResult

ManageFinalizerCall ==
    /\ ~mfOut.called
    /\ LET res == manageFinalizer(mfIn.finalizers, mfIn.delete)
       IN  mfOut' = [finalizers |-> res.finalizers, ret |-> res.ret, called |-> TRUE]
    /\ UNCHANGED <<mfIn, reconcileVars, dispatchVars, extraVars>>

NextFinalizer == ManageFinalizerCall

ReconcileIdle == InitReconcile /\ ~clusterWebhook.exists /\ \A r \in UIDs : cr[r].finalizers = <<>>

InitFinalizerSpec == ReconcileIdle /\ InitFinalizer /\ DispatchIdle /\ ExtraIdle

SpecFinalizer == InitFinalizerSpec /\ [][NextFinalizer]_vars

-----------------------------------------------------------------------------
(* Properties of the reconciler *)

WebhookOps == {"whCreate", "whUpdate"}
ResourceOps == {"crUpdate", "crStatus"}

Rank(op) == IF op \in WebhookOps THEN 1 ELSE IF op \in ResourceOps THEN 2 ELSE 3

Has(l, ops, ok) == \E i \in 1..Len(l) : l[i].op \in ops /\ l[i].ok = ok

Ids(data) == {e.id : e \in data}

HookResources(hook) == {hook.webhooks[i].resource : i \in 1..Len(hook.webhooks)}

\* C1: when the webhook create/update call of a cycle fails, act returns that
\* error, the cycle issues no write to the custom resource, and the published
\* aggregate is the one from before the cycle.
C1_WebhookFailureAborts ==
    \A w \in Workers :
        Has(log[w], WebhookOps, FALSE) =>
            /\ pc[w] = "done"
            /\ err[w] = "webhook"
            /\ ~Has(log[w], ResourceOps, TRUE) /\ ~Has(log[w], ResourceOps, FALSE)
            /\ ~Has(log[w], {"publish"}, TRUE)
            /\ proxyTypeData = start[w].data

C1_Witness ==
    \E w \in Workers :
        /\ pc[w] = "done"
        /\ log[w] = <<Event("whUpdate", FALSE)>>
        /\ state[w].newProxyTypeData # proxyTypeData

\* C2: the events of one cycle come in the order webhook write, custom
\* resource write, publication; the aggregate is published only when every
\* earlier write of the cycle succeeded, and a failed custom-resource write
\* ends the cycle with the aggregate as it was.
C2_ActOrder ==
    \A w \in Workers :
        LET l == log[w] IN
        /\ \A i, j \in 1..Len(l) : i < j => Rank(l[i].op) < Rank(l[j].op)
        /\ Has(l, {"publish"}, TRUE) => \A i \in 1..Len(l) : l[i].ok
        /\ Has(l, ResourceOps, FALSE) =>
              /\ pc[w] = "done"
              /\ err[w] = "resource"
              /\ proxyTypeData = start[w].data

C2_Witness ==
    \E w \in Workers :
        /\ pc[w] = "done"
        /\ Len(log[w]) = 3
        /\ log[w][1].op \in WebhookOps
        /\ log[w][2].op \in ResourceOps
        /\ log[w][3].op = "publish"
        /\ proxyTypeData # start[w].data

\* C3: a cycle that ends in an error has changed neither the cluster webhook
\* object, nor the stored custom resource, nor the published aggregate.
C3_NoPartialChange ==
    \A w \in Workers :
        (pc[w] = "done" /\ err[w] # "nil") =>
            /\ clusterWebhook = start[w].webhook
            /\ ~Has(log[w], WebhookOps \cup ResourceOps, TRUE)
            /\ proxyTypeData = start[w].data

C6_FinalizerRemovedLast ==
    \A w \in Workers :
        (/\ pc[w] = "publish"
         /\ state[w].delete
         /\ Has(log[w], {"crUpdate"}, TRUE)) =>
            /\ request[w] \notin HookResources(clusterWebhook)
            /\ request[w] \notin Ids(proxyTypeData)

Others(slice) == SelectSeq(slice, LAMBDA x : x # typeFinalizer)

\* C8: manageFinalizer adds the finalizer (result true) when it is absent and
\* the resource is not deleting, removes it (result true) when it is present
\* and the resource is deleting, and otherwise leaves the list alone (result
\* false); afterwards the finalizer is present iff the resource is not
\* deleting, and the other finalizers are kept in their order.
C8_FinalizerLifecycle ==
    mfOut.called =>
        LET had == \E i \in 1..Len(mfIn.finalizers) : mfIn.finalizers[i] = typeFinalizer
            has == \E i \in 1..Len(mfOut.finalizers) : mfOut.finalizers[i] = typeFinalizer
        IN  /\ (~mfIn.delete /\ ~had) => (has /\ mfOut.ret)
            /\ (mfIn.delete /\ had) => (~has /\ mfOut.ret)
            /\ (mfIn.delete <=> ~had) =>
                   (mfOut.finalizers = mfIn.finalizers /\ ~mfOut.ret)
            /\ has <=> ~mfIn.delete
            /\ Others(mfOut.finalizers) = Others(mfIn.finalizers)

C8_Witness ==
    /\ mfOut.called
    /\ mfIn.delete
    /\ mfIn.finalizers = <<otherFinalizer, typeFinalizer, thirdFinalizer>>
    /\ mfOut.finalizers = <<otherFinalizer, thirdFinalizer>>

-----------------------------------------------------------------------------
(* The admission proxy: checkWebhooks and doWebhook *)

\* What client.Do and the response body can be, as toFailure tells them apart.
Responses == {"httpErr", "nilBody", "readErr", "badJSON", "noResponse",
              "denyNoStatus", "deny", "allow"}

Nil == [kind |-> "nil", message |-> <<"none", 0>>]
Panic == [kind |-> "panic", message |-> <<"none", 0>>]

\* An error: its text is told apart by what failed and by the endpoint whose
\* call (URL, response message) it reports.
Error(kind, what, i) == [kind |-> kind, message |-> <<what, i>>]

errToFailure(e, failurePolicy) ==
    IF failurePolicy = "Fail" THEN Error("failed", e.message[1], e.message[2])
    ELSE Nil

\* toFailure for endpoint i's call result: nil, an error, or a panic on a nil
\* Response / Result pointer.
toFailure(i, resp, failurePolicy) ==
    IF resp = "httpErr" THEN errToFailure(Error("err", "http error", i), failurePolicy)
    ELSE IF resp = "nilBody"
    THEN errToFailure(Error("err", "response body is nil", i), failurePolicy)
    ELSE IF resp = "readErr"
    THEN errToFailure(Error("err", "ReadAll failed", i), failurePolicy)
    ELSE IF resp = "badJSON"
    THEN errToFailure(Error("err", "json unmarshall failed", i), failurePolicy)
    ELSE IF resp \in {"noResponse", "denyNoStatus"} THEN Panic
    ELSE IF resp = "deny" THEN Error("denied", "denied the request", i)
    ELSE Nil

\* doWebhook: failurePolicy := admv1beta1.Fail
doWebhookPolicy == "Fail"

approved == [allowed |-> TRUE, message |-> <<"none", 0>>]

errToAdmissionResponse(e) == [allowed |-> FALSE, message |-> e.message]

\* checkWebhooks approving a single error
verdictNeedsTwoErrors(errs) ==
    IF Len(errs) <= 1 THEN approved ELSE errToAdmissionResponse(errs[1])

\* checkWebhooks, from the errors read off the channel to the response.
checkWebhooksVerdict(errs) ==
    IF Len(errs) = 0 THEN approved ELSE errToAdmissionResponse(errs[1])

\* A request for which findWebhooks matched up to max endpoints.
InitRequest(max) ==
    /\ \E n \in 0..max : webhooks = [i \in 1..n |-> i]
    /\ mpc = "start"
    /\ gpc = [i \in 1..Len(webhooks) |-> "off"]
    /\ outcome = [i \in 1..Len(webhooks) |-> Nil]
    /\ errCh = <<>>
    /\ chClosed = FALSE
    /\ wg = 0
    /\ verdict = NoVerdict
    /\ crashed = FALSE
    /\ response = [i \in 1..Len(webhooks) |-> "none"]

InitDispatch == InitRequest(MaxHooks)

InitDispatchSpec == ReconcileIdle /\ FinalizerIdle /\ InitDispatch /\ ExtraIdle

\* checkWebhooks up to wg.Wait: an empty list is approved at once; otherwise
\* the channel is made, the counter set and one goroutine started per endpoint.
LaunchAt(first) ==
    /\ mpc = "start"
    /\ ~crashed
    /\ IF Len(webhooks) = 0
       THEN /\ verdict' = approved
            /\ mpc' = "returned"
            /\ UNCHANGED <<gpc, wg>>
       ELSE /\ wg' = Len(webhooks)
            /\ gpc' = [i \in 1..Len(webhooks) |-> first]
            /\ mpc' = "wait"
            /\ verdict' = verdict
    /\ UNCHANGED <<webhooks, outcome, errCh, chClosed, crashed, response,
                   reconcileVars, finalizerVars, extraVars>>

\* The goroutines taken from client.Do on: building and sending the request
\* is one step with the call.
Launch == LaunchAt("run")

\* doWebhook: the call, toFailure, and the send on errCh.
DoWebhook(i) ==
    /\ gpc[i] = "run"
    /\ ~crashed
    /\ \E resp \in Responses :
         LET e == toFailure(i, resp, doWebhookPolicy) IN
         IF e = Panic
         THEN /\ crashed' = TRUE
              /\ UNCHANGED <<gpc, outcome, errCh, response>>
         ELSE /\ Len(errCh) < Len(webhooks)
              /\ ~chClosed
              /\ errCh' = Append(errCh, e)
              /\ outcome' = [outcome EXCEPT ![i] = e]
              /\ gpc' = [gpc EXCEPT ![i] = "sent"]
              /\ response' = [response EXCEPT ![i] = resp]
              /\ crashed' = crashed
    /\ UNCHANGED <<webhooks, mpc, chClosed, wg, verdict, reconcileVars, finalizerVars, extraVars>>

\* doWebhook's deferred wg.Done().
Done(i) ==
    /\ gpc[i] = "sent"
    /\ ~crashed
    /\ wg' = wg - 1
    /\ gpc' = [gpc EXCEPT ![i] = "done"]
    /\ UNCHANGED <<webhooks, response, mpc, outcome, errCh, chClosed, verdict, crashed,
                   reconcileVars, finalizerVars, extraVars>>

\* checkWebhooks closing the channel without wg.Wait()
WaitCloseNoWait ==
    /\ mpc = "wait"
    /\ ~crashed
    /\ chClosed' = TRUE
    /\ mpc' = "collect"
    /\ UNCHANGED <<webhooks, response, gpc, outcome, errCh, wg, verdict, crashed,
                   reconcileVars, finalizerVars, extraVars>>

\* wg.Wait() returns; close(errCh).
WaitClose ==
    /\ mpc = "wait"
    /\ ~crashed
    /\ wg = 0
    /\ chClosed' = TRUE
    /\ mpc' = "collect"
    /\ UNCHANGED <<webhooks, response, gpc, outcome, errCh, wg, verdict, crashed,
                   reconcileVars, finalizerVars, extraVars>>

\* The range over errCh and the return.
Collect ==
    /\ mpc = "collect"
    /\ ~crashed
    /\ LET errs == SelectSeq(errCh, LAMBDA e : e # Nil)
       IN  verdict' = checkWebhooksVerdict(errs)
    /\ errCh' = <<>>
    /\ mpc' = "returned"
    /\ UNCHANGED <<webhooks, response, gpc, outcome, chClosed, wg, crashed, reconcileVars,
                   finalizerVars, extraVars>>

NextDispatch ==
    \/ Launch
    \/ \E i \in 1..Len(webhooks) : DoWebhook(i)
    \/ \E i \in 1..Len(webhooks) : Done(i)
    \/ WaitClose
    \/ Collect

SpecDispatch == InitDispatchSpec /\ [][NextDispatch]_vars

\* The scheduler lets a goroutine that can take a step take one.
SpecDispatchLive == SpecDispatch /\ WF_vars(NextDispatch)

-----------------------------------------------------------------------------
(* The admission proxy, with the request body: every goroutine is handed the
   same *bytes.Reader, whose Read is a load of the position, a copy from
   there, and a store of the new position, with nothing that orders the
   goroutines' steps. *)

MaxCalls == 2

FailurePolicies == {"Fail", "Ignore"}

InitBody ==
    /\ policy \in [1..Len(webhooks) -> FailurePolicies]
    /\ bodyPos = 0
    /\ contentLength = [i \in 1..Len(webhooks) |-> 0]
    /\ offset = [i \in 1..Len(webhooks) |-> 0]
    /\ received = [i \in 1..Len(webhooks) |-> <<>>]

InitProxySpec ==
    /\ ReconcileIdle /\ FinalizerIdle
    /\ InitRequest(MaxCalls) /\ InitBody
    /\ ToFailureIdle /\ ConfigIdle /\ AggregateIdle

LaunchProxy == LaunchAt("new")

\* http.NewRequestWithContext(..., body): the request's ContentLength is what
\* is left to read of the reader, and a request of length 0 has no body.
NewRequest(i) ==
    /\ gpc[i] = "new"
    /\ ~crashed
    /\ contentLength' = [contentLength EXCEPT ![i] = Len(Body) - bodyPos]
    /\ gpc' = [gpc EXCEPT ![i] = IF Len(Body) - bodyPos = 0 THEN "run" ELSE "load"]
    /\ UNCHANGED <<webhooks, mpc, outcome, errCh, chClosed, wg, verdict, crashed,
                   response, policy, bodyPos, offset, received, reconcileVars,
                   finalizerVars, toFailureVars, configVars, aggregateVars>>

\* client.Do reading the body: Read loads the reader's position.
ReadLoad(i) ==
    /\ gpc[i] = "load"
    /\ ~crashed
    /\ offset' = [offset EXCEPT ![i] = bodyPos]
    /\ gpc' = [gpc EXCEPT ![i] = "store"]
    /\ UNCHANGED <<webhooks, mpc, outcome, errCh, chClosed, wg, verdict, crashed,
                   response, policy, bodyPos, contentLength, received,
                   reconcileVars, finalizerVars, toFailureVars, configVars,
                   aggregateVars>>

\* Read copies what lies behind the loaded position and stores the new one;
\* at the end of the data it returns EOF and stores nothing.
ReadStore(i) ==
    /\ gpc[i] = "store"
    /\ ~crashed
    /\ received' = [received EXCEPT ![i] = SubSeq(Body, offset[i] + 1, Len(Body))]
    /\ bodyPos' = IF offset[i] >= Len(Body) THEN bodyPos ELSE Len(Body)
    /\ gpc' = [gpc EXCEPT ![i] = "run"]
    /\ UNCHANGED <<webhooks, mpc, outcome, errCh, chClosed, wg, verdict, crashed,
                   response, policy, contentLength, offset, reconcileVars,
                   finalizerVars, toFailureVars, configVars, aggregateVars>>

NextProxy ==
    \/ LaunchProxy
    \/ \E i \in 1..Len(webhooks) : NewRequest(i)
    \/ \E i \in 1..Len(webhooks) : ReadLoad(i)
    \/ \E i \in 1..Len(webhooks) : ReadStore(i)
    \/ \E i \in 1..Len(webhooks) : DoWebhook(i)
    \/ \E i \in 1..Len(webhooks) : Done(i)
    \/ WaitClose
    \/ Collect

SpecProxy == InitProxySpec /\ [][NextProxy]_vars

-----------------------------------------------------------------------------
(* Properties of the admission proxy *)

Denying == {i \in 1..Len(webhooks) : outcome[i] # Nil}
Denied == {i \in 1..Len(webhooks) : outcome[i].kind = "denied"}

\* C9: the response checkWebhooks returns allows the request iff every
\* call's outcome is nil (so it does for no endpoint), and denies it iff some
\* outcome is an error.
C9_VerdictMerge ==
    mpc = "returned" =>
        /\ verdict.allowed <=> \A i \in 1..Len(webhooks) : outcome[i] = Nil
        /\ ~verdict.allowed <=> Denying # {}

\* two endpoints, the second of which denied before the first allowed
C9_Witness ==
    /\ mpc = "returned"
    /\ Len(webhooks) >= 2
    /\ outcome[1] = Nil
    /\ outcome[2].kind = "denied"
    /\ ~verdict.allowed

\* C10: when two or more endpoints deny, the message returned is that of the
\* denying endpoint that comes first in the webhooks list.
C10_FirstDenialInListOrder ==
    (mpc = "returned" /\ Cardinality(Denied) >= 2 /\ Denying = Denied) =>
        LET first == CHOOSE i \in Denied : \A j \in Denied : i <= j
        IN  verdict.message = outcome[first].message

-----------------------------------------------------------------------------
(* toFailure as a function of the call's result and a failure policy *)

\* The values of admv1beta1.FailurePolicyType: Fail, Ignore, and the unset
\* string.
PolicyValues == FailurePolicies \cup {"Unset"}

InitToFailureSpec ==
    /\ ReconcileIdle /\ FinalizerIdle /\ DispatchIdle /\ BodyIdle
    /\ tfIn \in [resp : Responses, failurePolicy : PolicyValues,
                  endpoint : 1..MaxHooks]
    /\ tfOut = NoOutcome
    /\ ConfigIdle /\ AggregateIdle

ToFailureCall ==
    /\ tfOut = NoOutcome
    /\ tfOut' = toFailure(tfIn.endpoint, tfIn.resp, tfIn.failurePolicy)
    /\ UNCHANGED <<tfIn, reconcileVars, finalizerVars, dispatchVars, bodyVars,
                   configVars, aggregateVars>>

NextToFailure == ToFailureCall

SpecToFailure == InitToFailureSpec /\ [][NextToFailure]_vars

-----------------------------------------------------------------------------
(* The secondary endpoint's configuration: the ADM_SERVICE_* environment,
   the start of the webhook server, and findWebhooks for a request *)

PlainValues == {"ok", "missing"}
BundleValues == {"ok", "missing", "badBase64", "badPEM"}
PortValues == {"ok", "missing", "notInt"}

Environments ==
    [serviceName : PlainValues, namespace : PlainValues, path : PlainValues,
     caBundle : BundleValues, port : PortValues]

\* findWebhooks: the endpoint read from the environment, or a panic.
findWebhooks(e) ==
    IF e.serviceName = "missing" THEN "panic"
    ELSE IF e.namespace = "missing" THEN "panic"
    ELSE IF e.path = "missing" THEN "panic"
    ELSE IF e.caBundle = "missing" THEN "panic"
    ELSE IF e.caBundle = "badBase64" THEN "panic"
    ELSE IF e.port = "missing" THEN "panic"
    ELSE IF e.port = "notInt" THEN "panic"
    ELSE "found"

\* doWebhook's certificate pool: the result of AppendCertsFromPEM is dropped,
\* so a bundle that holds no certificate gives an empty pool and the call
\* goes on.
certPool(e) == IF e.caBundle = "ok" THEN "loaded" ELSE "empty"

InitConfigSpec ==
    /\ ReconcileIdle /\ FinalizerIdle /\ DispatchIdle /\ BodyIdle
    /\ ToFailureIdle
    /\ env \in Environments
    /\ phase = "startup"
    /\ lookup = "none"
    /\ AggregateIdle

\* setupWebhook registers the handler; the environment is not looked at.
SetupWebhook ==
    /\ phase = "startup"
    /\ phase' = "serving"
    /\ UNCHANGED <<env, lookup, reconcileVars, finalizerVars, dispatchVars,
                   bodyVars, toFailureVars, aggregateVars>>

\* An admission request arrives and findWebhooks is called for it.
HandleRequest ==
    /\ phase = "serving"
    /\ lookup' = findWebhooks(env)
    /\ phase' = "lookedUp"
    /\ UNCHANGED <<env, reconcileVars, finalizerVars, dispatchVars, bodyVars,
                   toFailureVars, aggregateVars>>

\* doWebhook up to the client: the URL and the certificate pool.
BuildClient ==
    /\ phase = "lookedUp"
    /\ lookup = "found"
    /\ lookup' = certPool(env)
    /\ phase' = "calling"
    /\ UNCHANGED <<env, reconcileVars, finalizerVars, dispatchVars, bodyVars,
                   toFailureVars, aggregateVars>>

NextConfig == SetupWebhook \/ HandleRequest \/ BuildClient

SpecConfig == InitConfigSpec /\ [][NextConfig]_vars

-----------------------------------------------------------------------------
(* Properties of the admission proxy, continued *)

Called == {i \in 1..Len(webhooks) : gpc[i] \in {"sent", "done"}}

\* C11: every endpoint whose call was made received the complete request
\* body, byte for byte, whatever the other calls of the request read.
C11_CompleteBody ==
    \A i \in Called : received[i] = Body /\ contentLength[i] = Len(Body)

\* C12: when the one matched endpoint's call fails at the transport level,
\* the verdict denies under FailurePolicy Fail and allows under Ignore.
C12_TransportFailurePolicy ==
    (mpc = "returned" /\ Len(webhooks) = 1 /\ response[1] = "httpErr") =>
        /\ policy[1] = "Fail" => ~verdict.allowed
        /\ policy[1] = "Ignore" => verdict.allowed

\* C13: for a parsed response with allowed=false, toFailure returns an error
\* carrying the response's message under policy Fail and nil under policy
\* Ignore, as it does for a transport or protocol error.
C13_DenialFollowsPolicy ==
    (tfOut # NoOutcome /\ tfIn.resp = "deny") =>
        /\ tfIn.failurePolicy = "Fail" =>
               (tfOut.kind # "nil" /\ tfOut.message = <<"denied the request", tfIn.endpoint>>)
        /\ tfIn.failurePolicy = "Ignore" => tfOut = Nil

ValidConfig == \A f \in DOMAIN env : env[f] = "ok"

\* C14: a configuration with a missing or malformed field never gets past
\* startup: no request is served with it, endpoint lookup never panics and no
\* call goes on with an invalid endpoint.
C14_ConfigRejectedAtStartup ==
    /\ ~ValidConfig => phase = "startup"
    /\ lookup # "panic"
    /\ phase = "calling" => lookup = "loaded"

-----------------------------------------------------------------------------
(* The aggregate as a function of the Add calls that built it *)

\* The aggregates with at most one entry per declarant.
Aggregates ==
    {d \in SUBSET [id : UIDs, op : Operations] :
        \A x, y \in d : x.id = y.id => x = y}

Declarants == [uid : UIDs, op : Operations]

InitAggregateSpec ==
    /\ ReconcileIdle /\ FinalizerIdle /\ DispatchIdle /\ BodyIdle
    /\ ToFailureIdle /\ ConfigIdle
    /\ agIn \in [data : Aggregates, a : Declarants, b : Declarants]
    /\ agOut = [called |-> FALSE, a |-> <<>>, ab |-> <<>>, ba |-> <<>>, aa |-> <<>>]

\* Add(A) / Add(A);Add(B) / Add(B);Add(A) / Add(A);Add(A), each followed by
\* GenerateGlobalWebhook().
AggregateCall ==
    /\ ~agOut.called
    /\ agOut' = [called |-> TRUE,
                 a |-> GenerateGlobalWebhook(Add(agIn.data, agIn.a)),
                 ab |-> GenerateGlobalWebhook(Add(Add(agIn.data, agIn.a), agIn.b)),
                 ba |-> GenerateGlobalWebhook(Add(Add(agIn.data, agIn.b), agIn.a)),
                 aa |-> GenerateGlobalWebhook(Add(Add(agIn.data, agIn.a), agIn.a))]
    /\ UNCHANGED <<agIn, reconcileVars, finalizerVars, dispatchVars, bodyVars,
                   toFailureVars, configVars>>

NextAggregate == AggregateCall

SpecAggregate == InitAggregateSpec /\ [][NextAggregate]_vars

-----------------------------------------------------------------------------
(* Properties of the reconcile cycle, continued *)

RuleSetOf(hooks) == {hooks[i] : i \in 1..Len(hooks)}

\* The rules of every other declarant of the aggregate and the resource's own.
ExpectedRules(data, res) ==
    {[resource |-> e.id, operation |-> e.op] : e \in {x \in data : x.id # res.uid}}
        \cup {[resource |-> res.uid, operation |-> res.op]}

\* C15: for a resource that is not being deleted and an existing cluster
\* webhook object, analyze returns update=true iff the object's content
\* differs from what the aggregate including the resource's current rule set
\* generates.
C15_UpdateIffDrift ==
    \A w \in SerialWorkers :
        (/\ pc[w] = "act"
         /\ observed[w].clusterWebhook.exists
         /\ ~observed[w].customResource.deleting) =>
            (state[w].update <=>
                RuleSetOf(observed[w].clusterWebhook.webhooks)
                    # ExpectedRules(proxyTypeData, observed[w].customResource))

\* the operation of the resource's rule was changed and the cluster object
\* still holds the rule generated before the change
C15_Witness ==
    \E w \in SerialWorkers :
        LET res == observed[w].customResource IN
        /\ pc[w] = "act"
        /\ observed[w].clusterWebhook.exists
        /\ ~res.deleting
        /\ res.generation = 2
        /\ \E o \in Operations \ {res.op} :
              [resource |-> res.uid, operation |-> o]
                  \in RuleSetOf(observed[w].clusterWebhook.webhooks)
        /\ state[w].update

Count(l, op) == Cardinality({i \in 1..Len(l) : l[i].op = op})

\* The decision of the worker's cycle is a create for a resource that is not
\* being deleted and does not hold the finalizer.
CreateCycle(w) ==
    /\ state[w].create
    /\ ~observed[w].customResource.deleting
    /\ ~containsString(observed[w].customResource.finalizers, typeFinalizer)

C17_Repeatable ==
    \A w \in SerialWorkers :
        stable[w] = "repeat" =>
            /\ ~Has(log[w], WebhookOps \cup ResourceOps, TRUE)
            /\ proxyTypeData = start[w].data

\* The content of a mapping id -> rule: its rules, one per id, in id order.
IsContentOf(hooks, rules) ==
    /\ RuleSetOf(hooks) = rules
    /\ Len(hooks) = Cardinality(rules)
    /\ \A i, j \in 1..Len(hooks) : i < j => hooks[i].resource < hooks[j].resource

\* C18: the generated content is that of the final mapping id -> rule set:
\* Add(A);Add(B) and Add(B);Add(A) generate the same content for two
\* declarants A and B, Add(A);Add(A) generates what Add(A) does, and what
\* Add(A) generates holds A's rule in place of any rule A had before.
C18_ContentOfFinalMapping ==
    agOut.called =>
        /\ agIn.a.uid # agIn.b.uid => agOut.ab = agOut.ba
        /\ agOut.aa = agOut.a
        /\ IsContentOf(agOut.a, ExpectedRules(agIn.data, agIn.a))
        /\ IsContentOf(agOut.ab,
               {x \in ExpectedRules(agIn.data, agIn.a) : x.resource # agIn.b.uid}
                   \cup {[resource |-> agIn.b.uid, operation |-> agIn.b.op]})

\* A replaces the rule it had in the aggregate, B is new to it
C18_Witness ==
    /\ agOut.called
    /\ agIn.a.uid # agIn.b.uid
    /\ \E e \in agIn.data : e.id = agIn.a.uid /\ e.op # agIn.a.op
    /\ \A e \in agIn.data : e.id # agIn.b.uid
    /\ agOut.ab = agOut.ba
    /\ Len(agOut.ab) = 2

\* The worker's cycle is past act's write to the custom resource.
PastResourceWrite(w) ==
    \/ pc[w] = "publish"
    \/ pc[w] = "done" /\ err[w] = "resource"
    \/ pc[w] = "done" /\ Has(log[w], {"publish"}, TRUE)

\* C19: a cycle issues at most one write to the custom resource: a full
\* update iff the finalizer list changed (the finalizer added to a resource
\* not being deleted, or removed from one being deleted), a status update iff
\* it did not change and the observed generation differed from the
\* generation, and none otherwise.
C19_OneResourceWrite ==
    \A w \in SerialWorkers :
        LET res == observed[w].customResource
            had == \E i \in 1..Len(res.finalizers) : res.finalizers[i] = typeFinalizer
            changed == (state[w].delete <=> had)
            lags == res.observedGeneration # res.generation
        IN  /\ Count(log[w], "crUpdate") + Count(log[w], "crStatus") <= 1
            /\ PastResourceWrite(w) =>
                   /\ Count(log[w], "crUpdate") = 1 <=> changed
                   /\ Count(log[w], "crStatus") = 1 <=> (~changed /\ lags)

\* the finalizer is in place and the observed generation lags: a status update
C19_Witness ==
    \E w \in SerialWorkers :
        LET res == observed[w].customResource IN
        /\ pc[w] = "publish"
        /\ containsString(res.finalizers, typeFinalizer)
        /\ ~state[w].delete
        /\ res.observedGeneration # res.generation
        /\ log[w] = <<Event("crStatus", TRUE)>>
        /\ cr[request[w]].observedGeneration = cr[request[w]].generation

-----------------------------------------------------------------------------
(* Properties of the admission proxy: the join *)

\* C20: when checkWebhooks has returned its verdict, every doWebhook started
\* for the request has completed; none is still running, whether or not an
\* earlier one reported a denial.
C20_VerdictAfterAllCalls ==
    mpc \in {"collect", "returned"} =>
        \A i \in 1..Len(webhooks) : gpc[i] = "done"

\* the first endpoint denied, the verdict came after the second had allowed
C20_Witness ==
    /\ mpc = "returned"
    /\ Len(webhooks) >= 2
    /\ outcome[1].kind = "denied"
    /\ response[2] = "allow"
    /\ \A i \in 1..Len(webhooks) : gpc[i] = "done"
    /\ ~verdict.allowed

-----------------------------------------------------------------------------
(* Properties of toFailure, continued *)

\* The call results that are no valid admission response.
NotAResponse == {"httpErr", "nilBody", "readErr", "badJSON", "noResponse",
                 "denyNoStatus"}

\* C21: toFailure returns for every call result: a transport error, an
\* absent or unreadable body and a body that is no valid admission response
\* (no response object, a denial without status object) give an error folded
\* through the failure policy, allowed=false gives a denial, allowed=true
\* gives nil; it never panics.
C21_TotalClassification ==
    tfOut # NoOutcome =>
        /\ tfOut # Panic
        /\ tfIn.resp \in NotAResponse =>
               IF tfIn.failurePolicy = "Fail" THEN tfOut.kind = "failed"
               ELSE tfOut = Nil
        /\ tfIn.resp = "deny" => tfOut.kind = "denied"
        /\ tfIn.resp = "allow" => tfOut = Nil

-----------------------------------------------------------------------------
(* Properties of Reconcile: what it returns *)

\* The worker's cycle is for a resource that did not exist when it started.
GoneCycle(w) == pc[w] # "idle" /\ ~start[w].cr.exists

\* C22: a cycle for a resource that no longer exists ends at once: unless
\* the read itself fails, Reconcile returns nil; analyze and act do not run,
\* nothing is written to the cluster and the published aggregate stays.
C22_GoneIsNoop ==
    \A w \in SerialWorkers :
        GoneCycle(w) =>
            /\ pc[w] = "done"
            /\ err[w] \in {"nil", "observe"}
            /\ observed[w] = NoObserved
            /\ state[w] = NoState
            /\ log[w] = <<>>
            /\ proxyTypeData = start[w].data
            /\ clusterWebhook = start[w].webhook

\* the resource is gone, the aggregate published for another one stays
C22_Witness ==
    \E w \in SerialWorkers :
        /\ GoneCycle(w)
        /\ pc[w] = "done" /\ err[w] = "nil"
        /\ start[w].data # EmptyProxyTypeData
        /\ proxyTypeData = start[w].data
        /\ clusterWebhook.exists

Last(l) == l[Len(l)]

AllBefore(l, ok) == \A i \in 1..(Len(l) - 1) : l[i].ok = ok

\* C23: Reconcile returns an error iff observe, analyze or act failed: an
\* error ends the cycle where it arose, so that the stages after it have not
\* run, and a cycle whose stages all succeeded returns nil.
C23_ErrorIffStageFailed ==
    \A w \in SerialWorkers :
        /\ err[w] # "nil" => pc[w] = "done"
        /\ pc[w] = "done" =>
            /\ err[w] = "observe" =>
                   observed[w] = NoObserved /\ state[w] = NoState /\ log[w] = <<>>
            /\ err[w] = "analyze" =>
                   observed[w] # NoObserved /\ state[w] = NoState /\ log[w] = <<>>
            /\ err[w] = "webhook" =>
                   /\ Len(log[w]) = 1
                   /\ log[w][1].op \in WebhookOps /\ ~log[w][1].ok
            /\ err[w] = "resource" =>
                   /\ log[w] # <<>> /\ AllBefore(log[w], TRUE)
                   /\ Last(log[w]).op \in ResourceOps /\ ~Last(log[w]).ok
            /\ err[w] = "nil" =>
                   /\ ~\E i \in 1..Len(log[w]) : ~log[w][i].ok
                   /\ \/ observed[w] = NoObserved /\ log[w] = <<>>
                      \/ log[w] # <<>> /\ Last(log[w]) = Event("publish", TRUE)

\* analyze failed: the cycle ended with its error and act did nothing
C23_Witness ==
    \E w \in SerialWorkers :
        /\ pc[w] = "done"
        /\ err[w] = "analyze"
        /\ observed[w] # NoObserved
        /\ log[w] = <<>>
        /\ clusterWebhook = start[w].webhook

-----------------------------------------------------------------------------
(* Properties of the admission proxy: the channel and termination *)

\* One send and one wg.Done() per goroutine, room in the channel for every
\* send, no send after the close, and all the outcomes there to be read.
ChannelDiscipline ==
    mpc \in {"wait", "collect"} =>
        /\ Len(errCh) = Cardinality(Called)
        /\ wg = Cardinality({i \in 1..Len(webhooks) : gpc[i] # "done"})
        /\ \A i \in 1..Len(webhooks) :
              gpc[i] = "run" => (Len(errCh) < Len(webhooks) /\ ~chClosed)
        /\ chClosed => Len(errCh) = Len(webhooks)

\* checkWebhooks returns, or the process has died of a panic.
ReturnsUnlessCrashed == <>(mpc = "returned" \/ crashed)

\* C24: every doWebhook sends one outcome and signals the wait group once,
\* no send blocks or meets a closed channel, the collector finds all the
\* outcomes, and checkWebhooks returns a verdict in the end, every call
\* having returned.
C24_TerminatesWithVerdict == []ChannelDiscipline /\ <>(mpc = "returned")

====
